---- MODULE Spec2Model ----
(***************************************************************************)
(* Paginated fetch-with-retry collectors of ibama_api_licitacoes:          *)
(* ColetorDadosOrgao (consultar_orgao.py), ColetorDadosUasg                *)
(* (consultar_uasg.py) and ColetorDadosPgc (consultar_pgcDetalhe.py).      *)
(*                                                                         *)
(* One collector instance is modelled.  The remote API is the environment: *)
(* every HTTP attempt either raises a transport error or answers with a    *)
(* status code and a body.  Nothing is assumed about the remote between    *)
(* two attempts.                                                           *)
(***************************************************************************)
EXTENDS Integers, Sequences, FiniteSets, TLC

\* ---------------------------------------------------------------- bounds
\* The remote holds at most MaxPag non-empty pages per key.
MaxPag == 2
\* A page that carries data carries TamPag records.
TamPag == 2
\* obter_dados_de_orgaos receives at most MaxChaves keys.
MaxChaves == 2

\* ------------------------------------------------------- program constants
\* The 5 of `while tentativas < 5`.
MaxTentativas == 5

\* ------------------------------------------------------------ environment
Coletores == {"Orgao", "Uasg", "Pgc"}

\* The keys (CNPJs) a key-scoped run may receive; SemChave stands for the
\* single implicit key of the key-less collectors.
Chaves == {"k1", "k2"}
SemChave == "-"

\* Representative status codes: 200, another 2xx, a 3xx and an error status
\* (raise_for_status treats 4xx and 5xx alike).
Statuses == {200, 201, 304, 500}

\* Shapes of a response body:
\*   naojson   the body is not JSON
\*   topo      JSON whose top level is not an object (array, scalar, null)
\*   semcampo  JSON object without "resultado"
\*   nulo      {"resultado": null}
\*   lista     {"resultado": [n records]}
\*   numero    {"resultado": n}        (a number; n = 0 is falsy)
\*   texto     {"resultado": "xy"}     (a non-empty string, of n characters)
Corpo(c, n) == [c |-> c, n |-> n]
Corpos ==
    {Corpo("naojson", 0), Corpo("topo", 0), Corpo("semcampo", 0), Corpo("nulo", 0)}
    \cup {Corpo("lista", n) : n \in {0, TamPag}}
    \cup {Corpo("numero", n) : n \in 0..1}
    \cup {Corpo("texto", TamPag)}

\* The body of an error response (4xx, 5xx), and of no response at all: no
\* collector reads it.
CorpoDeErro == Corpo("erro", 0)

\* Bodies the remote may send for page p: beyond MaxPag no body carries data.
CorposDaPagina(p) ==
    IF p <= MaxPag THEN Corpos
    ELSE {b \in Corpos : ~(b.c \in {"lista", "texto"} /\ b.n > 0)}

\* What one HTTP attempt for page p can bring: the transport raising, or a
\* response with a status and a body.
Desfechos(p) ==
    {[tipo |-> "erro", status |-> 0, corpo |-> CorpoDeErro]}
    \cup {[tipo |-> "resp", status |-> s, corpo |-> CorpoDeErro] : s \in {s \in Statuses : s >= 400}}
    \cup {[tipo |-> "resp", status |-> s, corpo |-> b] :
             s \in {s \in Statuses : s < 400}, b \in CorposDaPagina(p)}

VARIABLES
    coletor,      \* which of the three classes the instance is
    requestsNovo, \* installed requests: is its JSONDecodeError a RequestException
    pc,           \* "idle", "fetch" (inside buscar_dados), "got" (it returned),
                  \* "done" (the run returned), "raised" (an exception left the run)
    cnpjs,        \* the keys of the run
    i,            \* position in cnpjs (enumerate)
    pagina,       \* pagina of the current key
    tentativas,   \* tentativas of the current buscar_dados call
    dados,        \* value returned by the last buscar_dados call
    todos_dados,  \* self.todos_dados
    chamadas,     \* history: <<i, pagina>> of every buscar_dados call, in order
    entregas,     \* history: the number of records each finished call delivered
    reqs,         \* history: HTTP requests issued by the current call
    quintaAnt,    \* history: the previous call returned data on its 5th attempt
    ultima,       \* history: the last HTTP attempt of the current call
    efeito,       \* history: what buscar_dados made of it
    cnpj,         \* ajustar_cnpj: the value main() passes in
    cnpj_str,     \* ajustar_cnpj: the string it returned
    cnpj_str2,    \* ajustar_cnpj: what it returned for cnpj_str
    fase,         \* ajustar_cnpj: "fora", "entrada", "ajustado", "reajustado"
    remoto,       \* fixed remote: per key, its data pages and what follows them
    execucao,     \* fixed remote: how many times the instance was invoked
    base          \* fixed remote: the collection when the current run started

\* The variables of the key normalization; the collector never touches them.
varsCnpj == <<cnpj, cnpj_str, cnpj_str2, fase>>

\* The variables of the runs against a fixed remote.
varsRemoto == <<remoto, execucao, base>>

vars == <<coletor, requestsNovo, pc, cnpjs, i, pagina, tentativas, dados,
          todos_dados, chamadas, entregas, reqs, quintaAnt, ultima, efeito,
          varsCnpj, varsRemoto>>

\* ------------------------------------------------------------ Python values
\* A value returned by buscar_dados: None, a list, a str or a number, with its
\* length (or, for a number, its value).
Valor(t, n) == [t |-> t, n |-> n]
Nenhum == Valor("None", 0)
ListaVazia == Valor("list", 0)

\* resposta.json().get("resultado", []) on a JSON object.
Resultado(corpo) ==
    CASE corpo.c = "semcampo" -> ListaVazia
      [] corpo.c = "nulo"     -> Nenhum
      [] corpo.c = "lista"    -> Valor("list", corpo.n)
      [] corpo.c = "numero"   -> Valor("num", corpo.n)
      [] corpo.c = "texto"    -> Valor("str", corpo.n)

\* Python truthiness: `not d`.
Falsy(d) == d.t = "None" \/ d.n = 0

\* len(d) is defined for lists and strings only.
TemLen(d) == d.t \in {"list", "str"}

\* Iterating d (what list.extend consumes): lists and strings iterate, a
\* number raises TypeError.  The j-th record of page p of key k is <<k, p, j>>.
Iteravel(d) == d.t \in {"list", "str"}
Tamanho(d) == IF Iteravel(d) THEN d.n ELSE 0
Registros(k, p, n) == [j \in 1..n |-> <<k, p, j>>]
Elementos(k, p, d) == Registros(k, p, Tamanho(d))

\* ------------------------------------------------------------ buscar_dados
\* Does the attempt get past the status check?  Orgao: `status_code == 200`;
\* Uasg and Pgc: raise_for_status(), which raises for 400..599 only.
StatusAceito(c, s) ==
    IF c = "Orgao" THEN s = 200 ELSE ~(s >= 400 /\ s < 600)

\* Is the exception caught by `except requests.exceptions.RequestException`?
\* Orgao has no try block.  "transporte": ConnectionError/Timeout from
\* requests.get; "http": HTTPError from raise_for_status; "json": the decode
\* error of resposta.json(); "atributo": AttributeError of .get on a non-object.
Capturada(c, novo, exc) ==
    /\ c # "Orgao"
    /\ \/ exc \in {"transporte", "http"}
       \/ exc = "json" /\ novo

\* (mutant) off by one: `while tentativas <= 5`
LoopContinuaInclusive(t) == t <= MaxTentativas

\* `while tentativas < 5`
LoopContinua(t) == t < MaxTentativas

\* (mutant) the counter is shared between calls and never reset
TentativasHerdadas == tentativas

\* `tentativas = 0` at the entry of buscar_dados.
TentativasIniciais == 0

\* `tentativas += 1`
ContarFalha(t) == t + 1

\* Outcome of one pass through the loop body, given what the transport did:
\* <<"retorno", value>>, <<"falha", _>> or <<"excecao", _>>.
Passo(c, novo, tipo, s, corpo) ==
    IF tipo = "erro"
    THEN IF Capturada(c, novo, "transporte") THEN <<"falha", Nenhum>>
                                              ELSE <<"excecao", Nenhum>>
    ELSE IF ~StatusAceito(c, s)
    THEN \* Orgao falls through to `tentativas += 1`; the others raise HTTPError
         IF c = "Orgao" \/ Capturada(c, novo, "http") THEN <<"falha", Nenhum>>
                                                       ELSE <<"excecao", Nenhum>>
    ELSE IF corpo.c = "naojson"
    THEN IF Capturada(c, novo, "json") THEN <<"falha", Nenhum>>
                                        ELSE <<"excecao", Nenhum>>
    ELSE IF corpo.c = "topo"
    THEN IF Capturada(c, novo, "atributo") THEN <<"falha", Nenhum>>
                                            ELSE <<"excecao", Nenhum>>
    ELSE <<"retorno", Resultado(corpo)>>

\* ------------------------------------------------------ the collection loop
\* (mutant) the exit test looks at emptiness only and takes None for data
TesteSemNone(c, d) ==
    IF d.t = "None" THEN "segue"
    ELSE IF c = "Pgc" /\ ~TemLen(d) THEN "excecao"
    ELSE IF d.n = 0 THEN "fim" ELSE "segue"

\* (mutant) the exit test is `if dados is None` alone: an empty page is data
TesteSemVazio(c, d) ==
    IF d.t = "None" THEN "fim"
    ELSE IF c = "Pgc" /\ ~TemLen(d) THEN "excecao"
    ELSE "segue"

\* The loop's exit test.  Orgao, Uasg: `if not dados`; Pgc:
\* `if dados is None or len(dados) == 0`, which raises TypeError on a number.
\* "fim", "segue" or "excecao".
Teste(c, d) ==
    IF c = "Pgc"
    THEN IF d.t = "None" THEN "fim"
         ELSE IF ~TemLen(d) THEN "excecao"
         ELSE IF d.n = 0 THEN "fim" ELSE "segue"
    ELSE IF Falsy(d) THEN "fim" ELSE "segue"

\* (mutant) the page is put in front of the collection instead of behind it
EstenderNaFrente(td, elems) == elems \o td

\* (mutant) the page replaces the collection: `self.todos_dados = dados`
EstenderSubstituindo(td, elems) == elems

\* (mutant) the page is appended twice
EstenderDuasVezes(td, elems) == (td \o elems) \o elems

\* self.todos_dados.extend(dados)
Estender(td, elems) == td \o elems

\* (mutant) the page counter advances by two
PaginaSaltada(p) == p + 2

\* `pagina += 1`
ProximaPagina(p) == p + 1

\* (mutant) `pagina = 1` sits before the loop over the keys: a further key
\* starts at the page the key before it stopped at
PaginaHerdada == IF pagina = 0 THEN 1 ELSE pagina

\* `pagina = 1`
PrimeiraPagina == 1

\* No HTTP attempt yet in this call.
Nada == [tipo |-> "nada", status |-> 0, corpo |-> CorpoDeErro]

\* Entering buscar_dados(cnpjs[ii], pg).
Chamar(ii, pg) ==
    /\ pc' = "fetch"
    /\ i' = ii
    /\ pagina' = pg
    /\ tentativas' = TentativasIniciais
    /\ reqs' = 0
    /\ quintaAnt' = (pc = "got" /\ efeito = "retorno" /\ tentativas = MaxTentativas - 1)
    /\ chamadas' = Append(chamadas, <<ii, pg>>)
    /\ ultima' = Nada
    /\ efeito' = "nada"

\* A collector right after __init__.
Construido ==
    /\ pc = "idle"
    /\ cnpjs = <<>>
    /\ i = 0
    /\ pagina = 0
    /\ tentativas = 0
    /\ dados = Nenhum
    /\ todos_dados = <<>>
    /\ chamadas = <<>>
    /\ entregas = <<>>
    /\ reqs = 0
    /\ quintaAnt = FALSE
    /\ ultima = Nada
    /\ efeito = "nada"

\* No key is being normalized.
SemCnpj == [t |-> "str", v |-> <<>>]
CnpjFora ==
    /\ cnpj = SemCnpj
    /\ cnpj_str = <<>>
    /\ cnpj_str2 = <<>>
    /\ fase = "fora"

\* No fixed remote: every attempt's outcome is free.
SemRemoto ==
    /\ remoto = <<>>
    /\ execucao = 0
    /\ base = <<>>

Init ==
    /\ coletor \in Coletores
    /\ requestsNovo \in BOOLEAN
    /\ Construido
    /\ CnpjFora
    /\ SemRemoto

\* The key sequences a run may receive.
Entradas ==
    IF coletor = "Pgc"
    THEN UNION {[1..n -> Chaves] : n \in 0..MaxChaves}
    ELSE {<<SemChave>>}

\* obter_todos_dados() / obter_dados_de_orgaos(cs) is invoked.
ObterDados(cs) ==
    /\ pc = "idle"
    /\ cnpjs' = cs
    /\ IF cs = <<>>
       THEN /\ pc' = "done"
            /\ UNCHANGED <<i, pagina, tentativas, reqs, quintaAnt, chamadas, ultima, efeito>>
       ELSE Chamar(1, PrimeiraPagina)
    /\ UNCHANGED <<coletor, requestsNovo, dados, todos_dados, entregas>>

\* One pass through `while tentativas < 5` with the loop test true: one HTTP
\* request and what the code makes of its outcome.
Tentativa(o) ==
    /\ pc = "fetch"
    /\ LoopContinua(tentativas)
    /\ LET r == Passo(coletor, requestsNovo, o.tipo, o.status, o.corpo)
       IN  /\ reqs' = reqs + 1
           /\ ultima' = o
           /\ efeito' = r[1]
           /\ CASE r[1] = "retorno" -> /\ pc' = "got"
                                       /\ dados' = r[2]
                                       /\ entregas' = Append(entregas, Tamanho(r[2]))
                                       /\ UNCHANGED tentativas
                [] r[1] = "falha"   -> /\ tentativas' = ContarFalha(tentativas)
                                       /\ UNCHANGED <<pc, dados, entregas>>
                [] r[1] = "excecao" -> /\ pc' = "raised"
                                       /\ UNCHANGED <<tentativas, dados, entregas>>
    /\ UNCHANGED <<coletor, requestsNovo, cnpjs, i, pagina, todos_dados, chamadas, quintaAnt>>

\* The loop test fails: `return None`.
Desistir ==
    /\ pc = "fetch"
    /\ ~LoopContinua(tentativas)
    /\ pc' = "got"
    /\ dados' = Nenhum
    /\ entregas' = Append(entregas, 0)
    /\ UNCHANGED <<coletor, requestsNovo, cnpjs, i, pagina, tentativas, todos_dados,
                   chamadas, reqs, quintaAnt, ultima, efeito>>

\* The collector's loop body after buscar_dados returned.
Processar ==
    /\ pc = "got"
    /\ LET t == Teste(coletor, dados) IN
       CASE t = "fim" ->
              \* break: the next key, or the run returns
              /\ UNCHANGED todos_dados
              /\ IF i < Len(cnpjs)
                 THEN Chamar(i + 1, PrimeiraPagina)
                 ELSE /\ pc' = "done"
                      /\ UNCHANGED <<i, pagina, tentativas, reqs, quintaAnt, chamadas,
                                     ultima, efeito>>
         [] t = "excecao" ->
              \* len(dados) raised TypeError
              /\ pc' = "raised"
              /\ UNCHANGED <<todos_dados, i, pagina, tentativas, reqs, quintaAnt,
                             chamadas, ultima, efeito>>
         [] t = "segue" ->
              IF Iteravel(dados)
              THEN /\ todos_dados' = Estender(todos_dados, Elementos(cnpjs[i], pagina, dados))
                   /\ Chamar(i, ProximaPagina(pagina))
              ELSE \* extend(dados) raised TypeError
                   /\ pc' = "raised"
                   /\ UNCHANGED <<todos_dados, i, pagina, tentativas, reqs, quintaAnt,
                                  chamadas, ultima, efeito>>
    /\ UNCHANGED <<coletor, requestsNovo, cnpjs, dados, entregas>>

Next ==
    /\ \/ \E cs \in Entradas : ObterDados(cs)
       \/ \E o \in Desfechos(pagina) : Tentativa(o)
       \/ Desistir
       \/ Processar
    /\ UNCHANGED <<varsCnpj, varsRemoto>>

Spec == Init /\ [][Next]_vars

\* ------------------------------------------------------------------ claims
SemChaveColetor == coletor \in {"Orgao", "Uasg"}

\* The records of pages 1..n of key k, in page order, as the finished calls
\* delivered them (call p of a single-key run fetches page p).
RECURSIVE PaginasDe(_, _)
PaginasDe(k, n) ==
    IF n = 0 THEN <<>> ELSE PaginasDe(k, n - 1) \o Registros(k, n, entregas[n])

\* C1: a key-less run whose remote answers pages 1..N with data and page
\* N+1 with an empty page returns exactly the records of pages 1..N in page
\* order, and calls buscar_dados N+1 times, once for each of the pages 1..N+1.
C1_ConcatenacaoSemChave ==
    (SemChaveColetor /\ pc = "done" /\ dados = ListaVazia) =>
        LET N == Cardinality({c \in 1..Len(entregas) : entregas[c] > 0}) IN
            /\ Len(chamadas) = N + 1
            /\ \A p \in 1..(N + 1) : chamadas[p] = <<1, p>>
            /\ \A p \in 1..N : entregas[p] > 0
            /\ entregas[N + 1] = 0
            /\ todos_dados = PaginasDe(SemChave, N)

\* C1 witness: a key-less run that returned after two pages of data and an
\* empty third page.
C1_Witness ==
    /\ SemChaveColetor /\ pc = "done" /\ dados = ListaVazia
    /\ Len(chamadas) = 3
    /\ Len(todos_dados) = 2 * TamPag

\* C2: in a run over a single key (or without keys) in which the 5 attempts
\* for page 1 all fail, page 1 costs exactly 5 HTTP requests, the run returns
\* with an empty collection, and page 2 is never requested.
C2_Esgotada == Len(cnpjs) = 1 /\ pagina = 1 /\ tentativas = MaxTentativas
C2_FalhaNaPaginaUm ==
    /\ [](C2_Esgotada =>
            /\ reqs = 5
            /\ todos_dados = <<>>
            /\ chamadas = <<<<1, 1>>>>
            /\ pc \in {"fetch", "got", "done"})
    /\ [][(C2_Esgotada /\ pc = "got") =>
            (pc' = "done" /\ todos_dados' = <<>> /\ chamadas' = chamadas /\ reqs' = reqs)]_vars

\* C2 witness: the single-key run has returned after page 1 exhausted its
\* attempts.
C2_Witness ==
    C2_Esgotada /\ pc = "done" /\ dados = Nenhum /\ reqs = 5 /\ todos_dados = <<>>

Status2xx(s) == s >= 200 /\ s <= 299

\* C4 (as claimed): in the three collectors an attempt is counted as failed
\* exactly when the transport raised or the status is outside 2xx, and every
\* 2xx response ends the fetch as a success.
C4_Original ==
    ultima.tipo # "nada" =>
        /\ (efeito = "falha") <=>
              (ultima.tipo = "erro" \/ (ultima.tipo = "resp" /\ ~Status2xx(ultima.status)))
        /\ (ultima.tipo = "resp" /\ Status2xx(ultima.status)) => efeito = "retorno"

\* C5 (as claimed): whatever the attempts bring (transport error, non-2xx,
\* 2xx), no exception leaves the collection operation.
C5_Original == pc # "raised"

\* The finished calls whose result the collector has dealt with.
Processadas == IF pc = "got" THEN Len(entregas) - 1 ELSE Len(entregas)

\* The buscar_dados calls for page 1, in call order.
ChamadasDaPaginaUm == SelectSeq(chamadas, LAMBDA c : c[2] = 1)

\* C6 (as claimed): in a key-scoped run a key whose page 1 is empty or
\* exhausted gets no further call and so delivers nothing, and when the run
\* is over page 1 has been requested for every key of the input, in input
\* order.
C6_Original ==
    coletor = "Pgc" =>
        /\ \A c \in 1..Processadas :
              (chamadas[c][2] = 1 /\ entregas[c] = 0) =>
                  \A d \in 1..Len(chamadas) : chamadas[d][1] = chamadas[c][1] => d = c
        /\ (pc \in {"done", "raised"} =>
              ChamadasDaPaginaUm = [k \in 1..Len(cnpjs) |-> <<k, 1>>])

\* C7: tentativas belongs to one buscar_dados call.  Every call starts with
\* tentativas = 0, whatever the call before it consumed, and is allowed a
\* further request as long as it has issued fewer than 5.
C7_ContadorPorChamada ==
    /\ (pc = "fetch" /\ reqs = 0 => tentativas = 0)
    /\ (pc = "fetch" /\ reqs < 5 => tentativas < 5)

\* C7 witness: the call after one that failed 4 times and succeeded on its
\* 5th attempt has itself issued 5 requests, for the next page of the key.
C7_Witness ==
    quintaAnt /\ pagina = 2 /\ reqs = 5 /\ tentativas = 5

\* C8 (as claimed): a 2xx response whose body is a JSON object without
\* `resultado` makes buscar_dados return an empty sequence, no retry spent,
\* and the collector's exit test ends the key there.
C8_Original ==
    (ultima.tipo = "resp" /\ Status2xx(ultima.status)
        /\ ultima.corpo = Corpo("semcampo", 0)) =>
        /\ efeito = "retorno"
        /\ dados = ListaVazia
        /\ Teste(coletor, dados) = "fim"

\* C9 (as claimed): a 2xx response whose body is not a JSON object with a
\* `resultado` array (not JSON, not an object, `resultado` null or not an
\* array) is "no data": the fetch returns without raising and without a
\* retry, and the collector's exit test ends the key there.
C9_Original ==
    (ultima.tipo = "resp" /\ Status2xx(ultima.status)
        /\ ultima.corpo.c \in {"naojson", "topo", "nulo", "numero", "texto"}) =>
        /\ efeito = "retorno"
        /\ Teste(coletor, dados) = "fim"

\* The records the first n calls delivered, in call order.
RECURSIVE EntregasAte(_)
EntregasAte(n) ==
    IF n = 0 THEN <<>>
    ELSE EntregasAte(n - 1)
            \o Registros(cnpjs[chamadas[n][1]], chamadas[n][2], entregas[n])

\* C10: in a key-scoped run the collection is the concatenation of the pages
\* the calls delivered, and the calls go through the keys in input order and,
\* within a key, through its pages in ascending order.
C10_OrdemChavePagina ==
    coletor = "Pgc" =>
        /\ todos_dados = EntregasAte(Processadas)
        /\ \A c \in 1..(Len(chamadas) - 1) :
              \/ chamadas[c][1] < chamadas[c + 1][1]
              \/ /\ chamadas[c][1] = chamadas[c + 1][1]
                 /\ chamadas[c][2] < chamadas[c + 1][2]

\* C10 witness: a run over two different keys returned with two pages of the
\* first key followed by one page of the second.
C10_Witness ==
    /\ coletor = "Pgc" /\ pc = "done" /\ Len(cnpjs) = 2 /\ cnpjs[1] # cnpjs[2]
    /\ Len(todos_dados) = 3 * TamPag
    /\ todos_dados[2 * TamPag][1] = cnpjs[1]
    /\ todos_dados[2 * TamPag + 1][1] = cnpjs[2]

\* ---------------------------------------------------------------------
\* ajustar_cnpj (consultar_pgcDetalhe.py): the key normalization of main()
\* ---------------------------------------------------------------------

\* A string is a sequence of one-character strings.  A value read from the
\* UASG table is a string or an integer.
MaxLen == 2

TamanhoPadrao == 14

Digitos == {"0", "1", "2", "3", "4", "5", "6", "7", "8", "9"}
Sinais == {"+", "-"}
Alfabeto == {"0", "1", "7", "-", "."}

StrVal(s) == [t |-> "str", v |-> s]
IntVal(n) == [t |-> "int", v |-> n]

RECURSIVE Cadeias(_)
Cadeias(n) ==
    IF n = 0 THEN {<<>>}
    ELSE Cadeias(n - 1) \cup
         {Append(s, a) : s \in {t \in Cadeias(n - 1) : Len(t) = n - 1},
                         a \in Alfabeto}

Noves(n) == [j \in 1..n |-> "9"]

\* Strings around the width: 12 to 16 characters.
CadeiasLongas ==
    {Noves(n) \o s : n \in (TamanhoPadrao - 2)..TamanhoPadrao,
                     s \in Cadeias(MaxLen)}

Exemplo1 == <<"1">>
Exemplo12 == <<"1", "2", "3", "4", "5", "6", "7", "8", "9", "0", "1", "2">>

NumerosDeEntrada == {0, 7, 42, 1234567890}

EntradasCnpj ==
    {StrVal(s) : s \in Cadeias(MaxLen) \cup CadeiasLongas
                       \cup {Exemplo1, Exemplo12}}
    \cup {IntVal(n) : n \in NumerosDeEntrada}

DigitoDe(d) ==
    CASE d = 0 -> "0" [] d = 1 -> "1" [] d = 2 -> "2" [] d = 3 -> "3"
      [] d = 4 -> "4" [] d = 5 -> "5" [] d = 6 -> "6" [] d = 7 -> "7"
      [] d = 8 -> "8" [] d = 9 -> "9"

RECURSIVE Decimal(_)
Decimal(n) ==
    IF n < 10 THEN <<DigitoDe(n)>>
    ELSE Append(Decimal(n \div 10), DigitoDe(n % 10))

\* str(cnpj)
Str(x) == IF x.t = "str" THEN x.v ELSE Decimal(x.v)

Zeros(n) == [j \in 1..n |-> "0"]

\* A padding that puts the zeros behind the string.
ZfillADireita(s, largura) ==
    IF Len(s) >= largura THEN s ELSE s \o Zeros(largura - Len(s))

\* str.zfill(largura): zeros on the left, after a leading sign if any.
Zfill(s, largura) ==
    IF Len(s) >= largura THEN s
    ELSE IF s # <<>> /\ s[1] \in Sinais
         THEN <<s[1]>> \o Zeros(largura - Len(s)) \o Tail(s)
         ELSE Zeros(largura - Len(s)) \o s

ajustar_cnpj(x, tamanho) ==
    LET convertido == Str(x)
    IN  IF Len(convertido) < tamanho THEN Zfill(convertido, tamanho)
        ELSE convertido

InitCnpj ==
    /\ coletor = "Pgc"
    /\ requestsNovo = TRUE
    /\ Construido
    /\ cnpj \in EntradasCnpj
    /\ cnpj_str = <<>>
    /\ cnpj_str2 = <<>>
    /\ fase = "entrada"
    /\ SemRemoto

varsColetor == <<coletor, requestsNovo, pc, cnpjs, i, pagina, tentativas,
                 dados, todos_dados, chamadas, entregas, reqs, quintaAnt,
                 ultima, efeito>>

\* cnpjs = [ajustar_cnpj(cnpj) for cnpj in cnpjs], one element.
Ajustar ==
    /\ fase = "entrada"
    /\ cnpj_str' = ajustar_cnpj(cnpj, TamanhoPadrao)
    /\ fase' = "ajustado"
    /\ UNCHANGED <<cnpj, cnpj_str2, varsColetor, varsRemoto>>

\* The normalization applied to its own result.
Reajustar ==
    /\ fase = "ajustado"
    /\ cnpj_str2' = ajustar_cnpj(StrVal(cnpj_str), TamanhoPadrao)
    /\ fase' = "reajustado"
    /\ UNCHANGED <<cnpj, cnpj_str, varsColetor, varsRemoto>>

NextCnpj == Ajustar \/ Reajustar

SpecCnpj == InitCnpj /\ [][NextCnpj]_vars

SoDigitos(s) == \A j \in 1..Len(s) : s[j] \in Digitos

\* C11: ajustar_cnpj with width 14 is idempotent; a digit string shorter
\* than 14 comes back 14 long, as '0' padding followed by the input; an
\* input of 14 characters or more comes back unchanged; "1" gives
\* "00000000000001" and "123456789012" gives "00123456789012".
C11_Normalizacao ==
    /\ fase = "reajustado" => cnpj_str2 = cnpj_str
    /\ fase \in {"ajustado", "reajustado"} =>
        /\ (cnpj.t = "str" /\ SoDigitos(cnpj.v) /\ Len(cnpj.v) < 14) =>
               /\ Len(cnpj_str) = 14
               /\ \A j \in 1..(14 - Len(cnpj.v)) : cnpj_str[j] = "0"
               /\ SubSeq(cnpj_str, 14 - Len(cnpj.v) + 1, 14) = cnpj.v
        /\ (cnpj.t = "str" /\ Len(cnpj.v) >= 14) => cnpj_str = cnpj.v
        /\ cnpj = StrVal(Exemplo1) =>
               cnpj_str = <<"0", "0", "0", "0", "0", "0", "0", "0", "0",
                            "0", "0", "0", "0", "1">>
        /\ cnpj = StrVal(Exemplo12) =>
               cnpj_str = <<"0", "0", "1", "2", "3", "4", "5", "6", "7",
                            "8", "9", "0", "1", "2">>

C11_Witness ==
    /\ fase = "reajustado"
    /\ cnpj = StrVal(Exemplo12)
    /\ Len(cnpj_str2) = 14
    /\ cnpj_str2[1] = "0"
    /\ cnpj_str2[3] = "1"

\* ---------------------------------------------------------------------
\* Termination
\* ---------------------------------------------------------------------

\* The program is one sequential flow: whatever step is possible is taken,
\* and every HTTP attempt comes back with a response or an exception.
FairSpec == Spec /\ WF_vars(Next)

\* The last answer is one the pagination contract speaks of: a page (a list
\* of records, possibly empty) or a failed attempt (transport error, error
\* status).
PaginaOuFalha ==
    \/ ultima.tipo \in {"nada", "erro"}
    \/ ultima.status >= 400
    \/ ultima.corpo.c = "lista"

\* C12: when the remote has finitely many non-empty pages per key, each
\* followed by an empty page or by a page whose attempts all fail, the run
\* eventually reaches the state where all keys are done.
C12_Original == ([]PaginaOuFalha) => <>(pc = "done")

\* ---------------------------------------------------------------------
\* The effect of a page on the collector
\* ---------------------------------------------------------------------

\* A call that delivered nothing was the last call of its key occurrence:
\* no call asks for the next page of that occurrence.
C13_SemPaginaSeguinte ==
    \A c \in 1..Processadas :
        entregas[c] = 0 =>
            \A d \in 1..Len(chamadas) :
                chamadas[d] # <<chamadas[c][1], chamadas[c][2] + 1>>

\* What the collector does with a result of None or of an empty sequence.
C13_PassoDeFim ==
    (pc = "got" /\ dados \in {Nenhum, ListaVazia}) =>
        /\ todos_dados' = todos_dados
        /\ IF i < Len(cnpjs)
           THEN /\ pc' = "fetch"
                /\ i' = i + 1
                /\ pagina' = 1
                /\ chamadas' = Append(chamadas, <<i + 1, 1>>)
           ELSE /\ pc' = "done"
                /\ chamadas' = chamadas

\* C13: None and an empty sequence have the same effect at any page of any
\* key: the collection is left as it is, the next page of that key is never
\* requested, and the collector goes to page 1 of the next key or finishes.
C13_NoneComoVazio == []C13_SemPaginaSeguinte /\ [][C13_PassoDeFim]_vars

\* The first key ended by an empty page 2, the second by a None at page 2;
\* page 1 of both is in the collection.
C13_Witness ==
    /\ pc = "done"
    /\ coletor = "Pgc"
    /\ i = 2
    /\ pagina = 2
    /\ dados = Nenhum
    /\ tentativas = MaxTentativas
    /\ Len(chamadas) = 4
    /\ entregas = <<TamPag, 0, TamPag, 0>>
    /\ Len(todos_dados) = 2 * TamPag

\* ---------------------------------------------------------------------
\* The three collectors side by side
\* ---------------------------------------------------------------------

\* What collector c makes of the value d that buscar_dados returned.
Decisao(c, d) ==
    LET t == Teste(c, d)
    IN  IF t = "segue" /\ ~Iteravel(d) THEN "excecao" ELSE t

\* C14 (as claimed): the three collectors implement the same retry and
\* pagination logic.  Whatever the last attempt brought, each of the three
\* classes makes the same of it (a return, a counted failure or an
\* exception), and each does the same with a value buscar_dados returned
\* (end of the key, append and go on, or an exception).
C14_Original ==
    \A c1 \in Coletores, c2 \in Coletores :
        /\ ultima.tipo # "nada" =>
               Passo(c1, requestsNovo, ultima.tipo, ultima.status, ultima.corpo)
                   = Passo(c2, requestsNovo, ultima.tipo, ultima.status, ultima.corpo)
        /\ (pc = "got" /\ efeito = "retorno") =>
               Decisao(c1, dados) = Decisao(c2, dados)

\* s is a prefix of t.
Prefixo(s, t) == Len(s) <= Len(t) /\ SubSeq(t, 1, Len(s)) = s

\* C15: todos_dados is empty at construction and append-only: every step
\* leaves the collection it found as a prefix of the collection it leaves, so
\* no record is ever removed, moved or overwritten.
C15_SoAcrescenta ==
    /\ [](pc = "idle" => todos_dados = <<>>)
    /\ [][Prefixo(todos_dados, todos_dados')]_vars

\* Two pages were appended, the second behind the first.
C15_Witness ==
    /\ pc = "fetch"
    /\ pagina = 3
    /\ Len(todos_dados) = 2 * TamPag
    /\ todos_dados[1] = <<cnpjs[i], 1, 1>>
    /\ todos_dados[TamPag + 1] = <<cnpjs[i], 2, 1>>

\* C16: for every key occurrence the pages passed to buscar_dados are
\* 1, 2, ..., m in that order: the first call of the run and the first call
\* of every further occurrence ask for page 1, a call for page p + 1 of an
\* occurrence comes right after the call for page p of it delivered a
\* non-empty page, and no page of an occurrence is asked for by two calls.
C16_PaginasEmSequencia ==
    /\ \A c \in 1..Len(chamadas) :
          IF c = 1 THEN chamadas[c] = <<1, 1>>
          ELSE \/ /\ chamadas[c] = <<chamadas[c - 1][1], chamadas[c - 1][2] + 1>>
                  /\ entregas[c - 1] > 0
               \/ chamadas[c] = <<chamadas[c - 1][1] + 1, 1>>
    /\ \A c \in 1..Len(chamadas), d \in 1..Len(chamadas) :
          chamadas[c] = chamadas[d] => c = d

\* Pages 1, 2, 3 of the first key, then page 1 of the second.
C16_Witness ==
    /\ coletor = "Pgc"
    /\ chamadas = <<<<1, 1>>, <<1, 2>>, <<1, 3>>, <<2, 1>>>>

\* The sizes of the pages the first n calls delivered, added up.
RECURSIVE SomaAte(_)
SomaAte(n) == IF n = 0 THEN 0 ELSE SomaAte(n - 1) + entregas[n]

\* How often record r is in the collection, and how many of the calls
\* processed so far delivered the j-th record of page p of key k.
Ocorrencias(r) == Cardinality({x \in 1..Len(todos_dados) : todos_dados[x] = r})
EntregasDe(k, p, j) ==
    Cardinality({c \in 1..Processadas :
                    /\ cnpjs[chamadas[c][1]] = k
                    /\ chamadas[c][2] = p
                    /\ entregas[c] >= j})

C18_Contagem ==
    /\ Len(todos_dados) = SomaAte(Processadas)
    /\ \A c \in 1..Processadas :
          \A j \in 1..entregas[c] :
              LET k == cnpjs[chamadas[c][1]]
                  p == chamadas[c][2]
              IN  Ocorrencias(<<k, p, j>>) = EntregasDe(k, p, j)
    /\ \A x \in 1..Len(todos_dados) :
          EntregasDe(todos_dados[x][1], todos_dados[x][2], todos_dados[x][3]) > 0

\* C18: retries never duplicate or leak data.  In one run on a fresh
\* collector every record of every non-empty page a call delivered is in the
\* collection once per delivering call, nothing else is in it, its length is
\* the sum of the sizes of the pages delivered so far, and no step inside
\* buscar_dados (a failed attempt, a successful one, giving up) changes it.
C18_SemDuplicarNemVazar ==
    /\ []C18_Contagem
    /\ [][pc = "fetch" => todos_dados' = todos_dados]_vars

\* Page 1 came at the fifth attempt, after four failures, and is in the
\* collection once; page 2 is being fetched and has failed already.
C18_Witness ==
    /\ pc = "fetch"
    /\ quintaAnt
    /\ pagina = 2
    /\ tentativas = 2
    /\ entregas = <<TamPag>>
    /\ Len(todos_dados) = TamPag

\* ---------------------------------------------------------------------
\* Runs against a fixed remote, and a second run on the same instance
\* ---------------------------------------------------------------------

\* What follows the data pages of a key: an empty page, an error status on
\* every attempt, or the transport failing on every attempt.
Modos == {"vazia", "status", "transporte"}
Fonte(n, m) == [paginas |-> n, depois |-> m]
Fontes == {Fonte(n, m) : n \in 0..MaxPag, m \in Modos}

ChavesDoColetor == IF coletor = "Pgc" THEN Chaves ELSE {SemChave}

\* The answer of the fixed remote to a request for page p of key k.
DesfechoRemoto(k, p) ==
    IF p <= remoto[k].paginas
    THEN [tipo |-> "resp", status |-> 200, corpo |-> Corpo("lista", TamPag)]
    ELSE CASE remoto[k].depois = "vazia" ->
                [tipo |-> "resp", status |-> 200, corpo |-> Corpo("lista", 0)]
           [] remoto[k].depois = "status" ->
                [tipo |-> "resp", status |-> 500, corpo |-> CorpoDeErro]
           [] remoto[k].depois = "transporte" ->
                [tipo |-> "erro", status |-> 0, corpo |-> CorpoDeErro]

InitRemoto ==
    /\ coletor \in Coletores
    /\ requestsNovo = TRUE
    /\ Construido
    /\ CnpjFora
    /\ remoto \in [ChavesDoColetor -> Fontes]
    /\ execucao = 0
    /\ base = <<>>

\* The first invocation.
PrimeiraExecucao ==
    /\ \E cs \in Entradas : ObterDados(cs)
    /\ execucao' = 1
    /\ base' = todos_dados
    /\ UNCHANGED <<remoto, varsCnpj>>

\* (mutant) the method starts with `self.todos_dados = []`
ColecaoReiniciada(td) == <<>>

\* Neither obter_todos_dados nor obter_dados_de_orgaos assigns todos_dados
\* before its loop: the run starts with the collection the instance holds.
ColecaoAoIniciar(td) == td

\* The same method is invoked again, with the same keys, on the instance
\* whose first run has returned.
Reexecutar ==
    /\ pc = "done"
    /\ execucao = 1
    /\ execucao' = 2
    /\ base' = todos_dados
    /\ todos_dados' = ColecaoAoIniciar(todos_dados)
    /\ IF cnpjs = <<>>
       THEN UNCHANGED <<pc, i, pagina, tentativas, reqs, quintaAnt, chamadas,
                        ultima, efeito>>
       ELSE Chamar(1, PrimeiraPagina)
    /\ UNCHANGED <<coletor, requestsNovo, cnpjs, dados, entregas, remoto, varsCnpj>>

TentativaRemota ==
    /\ pc = "fetch"
    /\ Tentativa(DesfechoRemoto(cnpjs[i], pagina))
    /\ UNCHANGED <<varsCnpj, varsRemoto>>

DesistirRemoto == Desistir /\ UNCHANGED <<varsCnpj, varsRemoto>>

ProcessarRemoto == Processar /\ UNCHANGED <<varsCnpj, varsRemoto>>

NextRemoto ==
    \/ PrimeiraExecucao
    \/ Reexecutar
    \/ TentativaRemota
    \/ DesistirRemoto
    \/ ProcessarRemoto

SpecRemoto == InitRemoto /\ [][NextRemoto]_vars

\* The records the remote holds for key k, in page order.
RECURSIVE PaginasRemotas(_, _)
PaginasRemotas(k, n) ==
    IF n = 0 THEN <<>> ELSE PaginasRemotas(k, n - 1) \o Registros(k, n, TamPag)
RegistrosRemotos(k) == PaginasRemotas(k, remoto[k].paginas)

\* The records of the first n key occurrences of the input, in input order.
RECURSIVE RegistrosDasChaves(_)
RegistrosDasChaves(n) ==
    IF n = 0 THEN <<>>
    ELSE RegistrosDasChaves(n - 1) \o RegistrosRemotos(cnpjs[n])

\* C17: the collector does not reset its state between runs.  A second
\* invocation on the same instance starts from the records of the first and
\* only appends to them, and against the unchanged remote it ends with the
\* records of the first run followed by the same records again.
C17_SegundaExecucaoAcumula ==
    /\ execucao = 2 => Prefixo(base, todos_dados)
    /\ (execucao = 2 /\ pc = "done") =>
           /\ base = RegistrosDasChaves(Len(cnpjs))
           /\ todos_dados = base \o RegistrosDasChaves(Len(cnpjs))

\* The second run of ColetorDadosUasg has returned: two pages twice.
C17_Witness ==
    /\ coletor = "Uasg"
    /\ execucao = 2
    /\ pc = "done"
    /\ Len(base) = 2 * TamPag
    /\ Len(todos_dados) = 4 * TamPag
    /\ todos_dados[2 * TamPag + 1] = todos_dados[1]

\* How often key k occurs in the input.
VezesNaEntrada(k) == Cardinality({n \in 1..Len(cnpjs) : cnpjs[n] = k})

\* C19: keys are not deduplicated.  When the first run of the key-scoped
\* collector has returned, page 1 was called once for every position of the
\* input, in input order, whether or not the key occurred before, and each
\* record the unchanged remote holds for a key is in the collection as many
\* times as the key occurs in the input, each occurrence's records at that
\* occurrence's position.
C19_SemDeduplicar ==
    (coletor = "Pgc" /\ execucao = 1 /\ pc = "done") =>
        /\ ChamadasDaPaginaUm = [n \in 1..Len(cnpjs) |-> <<n, 1>>]
        /\ todos_dados = RegistrosDasChaves(Len(cnpjs))
        /\ \A k \in Chaves :
              \A p \in 1..remoto[k].paginas, j \in 1..TamPag :
                  Ocorrencias(<<k, p, j>>) = VezesNaEntrada(k)

\* The key k1 is given twice and has two pages: they are fetched twice.
C19_Witness ==
    /\ coletor = "Pgc"
    /\ execucao = 1
    /\ pc = "done"
    /\ cnpjs = <<"k1", "k1">>
    /\ remoto["k1"].paginas = 2
    /\ Len(todos_dados) = 4 * TamPag
    /\ chamadas = <<<<1, 1>>, <<1, 2>>, <<1, 3>>, <<2, 1>>, <<2, 2>>, <<2, 3>>>>

================================================================
